---- MODULE Spec2Model ----
(***************************************************************************)
(* NEXORA: escrow and settlement of a binary prediction market.            *)
(*                                                                         *)
(* The model holds the accounts one claim_with_proof instruction touches:  *)
(* one Market account (THIS_MARKET), its vault token account, the          *)
(* UserPosition account of every user and the users' token accounts.       *)
(* OTHER_MARKET is the address of another market: it only ever appears     *)
(* inside signed payout messages.                                          *)
(*                                                                         *)
(* Instructions run one at a time (the runtime serialises the              *)
(* instructions that write the same accounts).  `last` is the receipt of   *)
(* the instruction that ran last, with its arguments; Observe is the       *)
(* client reading that receipt before it sends the next transaction.       *)
(***************************************************************************)
EXTENDS Integers, Sequences, FiniteSets, TLC

VARIABLES market, vault, position, tokens, events, now, last, pending, msg, wait, flow, mock

vars == <<market, vault, position, tokens, events, now, last, pending, msg, wait, flow, mock>>

\* no payout message is being built; no computation is being waited for
NoMessage == [pc |-> "idle"]
NotWaiting == [pc |-> "idle"]
\* no claim is being made by the client; the mock service holds nothing
NoFlow == [pc |-> "idle"]
NoMock == [pc |-> "idle"]

---------------------------------------------------------------------------
(* Bounds of the model *)

\* payouts a proof may name: 0..MaxPayout
MaxPayout == 2
\* nonces a proof may name: 0..MaxNonce (0 is the unused sentinel)
MaxNonce == 1
\* tokens every user's token account holds before any bet
MaxDeposit == 1
\* the clock runs over 0..MaxTime
MaxTime == 1

Payouts == 0..MaxPayout
Nonces == 0..MaxNonce

---------------------------------------------------------------------------
(* Identities *)

THIS_MARKET == "mA"
OTHER_MARKET == "mB"
Markets == {THIS_MARKET, OTHER_MARKET}
Users == {"uX", "uY"}

\* the market creator, the only account allowed to resolve
AUTHORITY == "admin"
Callers == Users \cup {AUTHORITY}

\* pub const MXE_PUBKEY: the one key whose signatures the program accepts
MXE_PUBKEY == "mxe"
\* a key pair the submitter of a transaction owns
ATTACKER_KEY == "attacker"
\* signer of bytes no key produced (random bytes)
NOBODY == "nobody"
Signers == {MXE_PUBKEY, ATTACKER_KEY, NOBODY}

\* the byte every one of the 32 bytes of an address holds (0x11, 0x22, ...)
AddressByte(id) ==
    CASE id = "mA" -> 17
      [] id = "mB" -> 51
      [] id = "uX" -> 34
      [] id = "uY" -> 68
      [] OTHER -> 0

PubkeyBytes(id) == [i \in 1..32 |-> AddressByte(id)]

---------------------------------------------------------------------------
(* Message construction *)

RECURSIVE LeBytes(_, _)
LeBytes(n, k) == IF k = 0 THEN <<>> ELSE <<n % 256>> \o LeBytes(n \div 256, k - 1)

\* u64::to_le_bytes
to_le_bytes(n) == LeBytes(n, 8)

\* keccak::hash: collision resistant, so the digest stands for its preimage
keccak_hash(data) == [keccak256 |-> data]

\* variant: the message leaves the market out
payout_message_data_no_market(mkt, user, payout, nonce) ==
    PubkeyBytes(user) \o to_le_bytes(payout) \o to_le_bytes(nonce)

\* the 80 bytes market || user || payout (LE) || nonce (LE)
payout_message_data(mkt, user, payout, nonce) ==
    PubkeyBytes(mkt) \o PubkeyBytes(user) \o to_le_bytes(payout) \o to_le_bytes(nonce)

construct_payout_message(mkt, user, payout, nonce) ==
    keccak_hash(payout_message_data(mkt, user, payout, nonce))

---------------------------------------------------------------------------
(* Signatures and the Ed25519 instruction *)

\* what a payout proof is issued for
Tuple(mkt, user, payout, nonce) ==
    [market |-> mkt, user |-> user, payout |-> payout, nonce |-> nonce]

Tuples == [market : Markets, user : Users, payout : Payouts, nonce : Nonces]

MessageOf(t) == construct_payout_message(t.market, t.user, t.payout, t.nonce)

\* the 64 bytes `signer` produces over the message of tuple t
Sign(signer, t) == [signer |-> signer, signed |-> t]

\* Ed25519 verification of `signature` over `message` under `pubkey`
Ed25519Verify(pubkey, message, signature) ==
    /\ signature.signer = pubkey
    /\ signature.signer # NOBODY
    /\ MessageOf(signature.signed) = message

\* the instruction at index 0 of the transaction
NoInstruction(sig) == [program |-> "none", pubkey |-> NOBODY, signature |-> sig, message |-> sig.signed]
OtherInstruction(sig) == [program |-> "other", pubkey |-> NOBODY, signature |-> sig, message |-> sig.signed]
Ed25519Instruction(sig) == [program |-> "ed25519", pubkey |-> sig.signer, signature |-> sig, message |-> sig.signed]

\* the runtime runs the Ed25519 program first: a transaction whose Ed25519
\* instruction does not verify never reaches claim_with_proof
RuntimeAccepts(ix) ==
    ix.program = "ed25519" => Ed25519Verify(ix.pubkey, MessageOf(ix.message), ix.signature)

---------------------------------------------------------------------------
(* The program: accounts *)

NoResult == "None"
MarketResults == {"Yes", "No"}

\* Market account as create_market(question, expiry_timestamp) leaves it
NewMarket(expiry) ==
    [authority |-> AUTHORITY, expiry_timestamp |-> expiry,
     total_pool |-> 0, resolved |-> FALSE, result |-> NoResult]

\* UserPosition account before the user's first bet (zero-initialised)
NoPosition == [exists |-> FALSE, amount |-> 0, claimed |-> FALSE, nonce_used |-> 0]

---------------------------------------------------------------------------
(* The program: claim_with_proof *)

\* variant: a verification under another key surfaces as SignatureMismatch
verify_mxe_signature_merged_key(ix, expected_message, expected_signature) ==
    IF ix.program = "none" THEN "Ed25519InstructionMissing"
    ELSE IF ix.program # "ed25519" THEN "InvalidEd25519Program"
    ELSE IF ix.pubkey # MXE_PUBKEY THEN "SignatureMismatch"
    ELSE IF ix.signature # expected_signature THEN "SignatureMismatch"
    ELSE IF MessageOf(ix.message) # expected_message THEN "MessageMismatch"
    ELSE "Ok"

\* variant: the presented signature is not compared with the verified one
verify_mxe_signature_any_signature(ix, expected_message, expected_signature) ==
    IF ix.program = "none" THEN "Ed25519InstructionMissing"
    ELSE IF ix.program # "ed25519" THEN "InvalidEd25519Program"
    ELSE IF ix.pubkey # MXE_PUBKEY THEN "InvalidMXEPublicKey"
    ELSE IF MessageOf(ix.message) # expected_message THEN "MessageMismatch"
    ELSE "Ok"

\* variant: a missing instruction surfaces as the loader's own error
verify_mxe_signature_loader_error(ix, expected_message, expected_signature) ==
    IF ix.program = "none" THEN "ProgramError"
    ELSE IF ix.program # "ed25519" THEN "InvalidEd25519Program"
    ELSE IF ix.pubkey # MXE_PUBKEY THEN "InvalidMXEPublicKey"
    ELSE IF ix.signature # expected_signature THEN "SignatureMismatch"
    ELSE IF MessageOf(ix.message) # expected_message THEN "MessageMismatch"
    ELSE "Ok"

\* variant: any public key is accepted
verify_mxe_signature_any_key(ix, expected_message, expected_signature) ==
    IF ix.program = "none" THEN "Ed25519InstructionMissing"
    ELSE IF ix.program # "ed25519" THEN "InvalidEd25519Program"
    ELSE IF ix.signature # expected_signature THEN "SignatureMismatch"
    ELSE IF MessageOf(ix.message) # expected_message THEN "MessageMismatch"
    ELSE "Ok"

\* variant: the verified message is not compared with the recomputed one
verify_mxe_signature_any_message(ix, expected_message, expected_signature) ==
    IF ix.program = "none" THEN "Ed25519InstructionMissing"
    ELSE IF ix.program # "ed25519" THEN "InvalidEd25519Program"
    ELSE IF ix.pubkey # MXE_PUBKEY THEN "InvalidMXEPublicKey"
    ELSE IF ix.signature # expected_signature THEN "SignatureMismatch"
    ELSE "Ok"

\* fn verify_mxe_signature(ix_sysvar, expected_message, expected_signature):
\* inspects the instruction at index 0; "Ok" or the error kind
verify_mxe_signature(ix, expected_message, expected_signature) ==
    IF ix.program = "none" THEN "Ed25519InstructionMissing"
    ELSE IF ix.program # "ed25519" THEN "InvalidEd25519Program"
    ELSE IF ix.pubkey # MXE_PUBKEY THEN "InvalidMXEPublicKey"
    ELSE IF ix.signature # expected_signature THEN "SignatureMismatch"
    ELSE IF MessageOf(ix.message) # expected_message THEN "MessageMismatch"
    ELSE "Ok"

\* variant: the position is not checked
check_position_unchecked(pos) == "Ok"

\* variant: the claimed flag is not checked
check_position_no_claimed(pos) ==
    IF pos.nonce_used # 0 THEN "NonceAlreadyUsed" ELSE "Ok"

\* variant: the consumed nonce is not checked
check_position_no_nonce(pos) ==
    IF pos.claimed THEN "AlreadyClaimed" ELSE "Ok"

\* variant: the consumed nonce is checked before the claimed flag
check_position_nonce_first(pos) ==
    IF pos.nonce_used # 0 THEN "NonceAlreadyUsed"
    ELSE IF pos.claimed THEN "AlreadyClaimed"
    ELSE "Ok"

\* steps 2 and 3 of claim_with_proof: the checks on the UserPosition account
check_position(pos) ==
    IF pos.claimed THEN "AlreadyClaimed"
    ELSE IF pos.nonce_used # 0 THEN "NonceAlreadyUsed"
    ELSE "Ok"

\* variant: the signature is verified before the ledger entry is checked
claim_checks_verify_first(mkt, pos, vault_amount, user, payout, nonce, signature, ix) ==
    IF ~mkt.resolved THEN "MarketNotResolved"
    ELSE LET message == construct_payout_message(THIS_MARKET, user, payout, nonce)
             verified == verify_mxe_signature(ix, message, signature)
         IN  IF verified # "Ok" THEN verified
             ELSE IF check_position(pos) # "Ok" THEN check_position(pos)
             ELSE IF payout > vault_amount THEN "InsufficientVaultBalance"
             ELSE "Ok"

\* variant: the vault is compared with the payout before the other checks
claim_checks_solvency_first(mkt, pos, vault_amount, user, payout, nonce, signature, ix) ==
    IF payout > vault_amount THEN "InsufficientVaultBalance"
    ELSE IF ~mkt.resolved THEN "MarketNotResolved"
    ELSE IF check_position(pos) # "Ok" THEN check_position(pos)
    ELSE verify_mxe_signature(ix, construct_payout_message(THIS_MARKET, user, payout, nonce),
                              signature)

\* variant: a payout that empties the vault is refused
claim_checks_strict_solvency(mkt, pos, vault_amount, user, payout, nonce, signature, ix) ==
    IF ~mkt.resolved THEN "MarketNotResolved"
    ELSE IF check_position(pos) # "Ok" THEN check_position(pos)
    ELSE LET message == construct_payout_message(THIS_MARKET, user, payout, nonce)
             verified == verify_mxe_signature(ix, message, signature)
         IN  IF verified # "Ok" THEN verified
             ELSE IF payout >= vault_amount THEN "InsufficientVaultBalance"
             ELSE "Ok"

\* variant: the payout is not compared with the vault
claim_checks_no_solvency(mkt, pos, vault_amount, user, payout, nonce, signature, ix) ==
    IF ~mkt.resolved THEN "MarketNotResolved"
    ELSE IF check_position(pos) # "Ok" THEN check_position(pos)
    ELSE verify_mxe_signature(ix, construct_payout_message(THIS_MARKET, user, payout, nonce),
                              signature)

\* variant: a payout of zero is refused
claim_checks_zero_refused(mkt, pos, vault_amount, user, payout, nonce, signature, ix) ==
    IF ~mkt.resolved THEN "MarketNotResolved"
    ELSE IF payout = 0 THEN "InvalidAmount"
    ELSE IF check_position(pos) # "Ok" THEN check_position(pos)
    ELSE LET message == construct_payout_message(THIS_MARKET, user, payout, nonce)
             verified == verify_mxe_signature(ix, message, signature)
         IN  IF verified # "Ok" THEN verified
             ELSE IF payout > vault_amount THEN "InsufficientVaultBalance"
             ELSE "Ok"

\* variant: the market's resolution is not checked
claim_checks_no_resolved(mkt, pos, vault_amount, user, payout, nonce, signature, ix) ==
    IF check_position(pos) # "Ok" THEN check_position(pos)
    ELSE LET message == construct_payout_message(THIS_MARKET, user, payout, nonce)
             verified == verify_mxe_signature(ix, message, signature)
         IN  IF verified # "Ok" THEN verified
             ELSE IF payout > vault_amount THEN "InsufficientVaultBalance"
             ELSE "Ok"

\* the verification flow of claim_with_proof(ctx, payout, nonce, signature) on
\* the accounts (mkt, pos, vault_amount) with the transaction's instruction 0:
\* "Ok" or the error kind of the first check that fails
claim_checks(mkt, pos, vault_amount, user, payout, nonce, signature, ix) ==
    IF ~mkt.resolved THEN "MarketNotResolved"
    ELSE IF check_position(pos) # "Ok" THEN check_position(pos)
    ELSE LET message == construct_payout_message(THIS_MARKET, user, payout, nonce)
             verified == verify_mxe_signature(ix, message, signature)
         IN  IF verified # "Ok" THEN verified
             ELSE IF payout > vault_amount THEN "InsufficientVaultBalance"
             ELSE "Ok"

\* the result of claim_with_proof in the current state
claim_result(user, payout, nonce, signature, ix) ==
    claim_checks(market, position[user], vault, user, payout, nonce, signature, ix)

\* variant: the claimed flag is not set
position_after_claim_no_flag(pos, nonce) ==
    [pos EXCEPT !.nonce_used = nonce]

\* variant: the nonce is not recorded
position_after_claim_no_nonce(pos, nonce) ==
    [pos EXCEPT !.claimed = TRUE]

\* the UserPosition account after the claim executed
position_after_claim(pos, nonce) ==
    [pos EXCEPT !.claimed = TRUE, !.nonce_used = nonce]

\* variant: the vault is not debited
vault_after_claim_no_debit(vault_amount, payout) == vault_amount

\* the vault's token amount after token::transfer(vault -> user, payout)
vault_after_claim(vault_amount, payout) == vault_amount - payout

\* variant: the event does not carry the nonce
ClaimEvent_no_nonce(user, payout, nonce) ==
    [market |-> THIS_MARKET, user |-> user, payout |-> payout, nonce |-> 0]

ClaimEvent(user, payout, nonce) ==
    [market |-> THIS_MARKET, user |-> user, payout |-> payout, nonce |-> nonce]

---------------------------------------------------------------------------
(* Receipts *)

NoSignature == Sign(NOBODY, Tuple(THIS_MARKET, "uX", 0, 0))

\* the accounts of `user` as the instruction found them
Before(user) == [position |-> position[user], vault |-> vault, tokens |-> tokens[user]]

Idle ==
    [op |-> "none", user |-> "uX", amount |-> 0, payout |-> 0, nonce |-> 0,
     signature |-> NoSignature, ix |-> NoInstruction(NoSignature), result |-> "Ok",
     before |-> [position |-> NoPosition, vault |-> 0, tokens |-> 0]]

ClaimReceipt(user, payout, nonce, signature, ix, result) ==
    [op |-> "claim_with_proof", user |-> user, amount |-> 0, payout |-> payout,
     nonce |-> nonce, signature |-> signature, ix |-> ix, result |-> result,
     before |-> Before(user)]

OtherReceipt(op, user, amount, result) ==
    [Idle EXCEPT !.op = op, !.user = user, !.amount = amount, !.result = result]

---------------------------------------------------------------------------
(* What a submitter can put into a claim transaction *)

\* the proof the MXE issues for the claim (user, payout, nonce) on this market
ValidProof(user, payout, nonce) == Sign(MXE_PUBKEY, Tuple(THIS_MARKET, user, payout, nonce))

\* the same claim signed with the caller's own key, and 64 bytes nobody signed
SelfSigned(user, payout, nonce) == Sign(ATTACKER_KEY, Tuple(THIS_MARKET, user, payout, nonce))
RandomBytes(user, payout, nonce) == Sign(NOBODY, Tuple(THIS_MARKET, user, payout, nonce))

\* the proofs of the MXE a caller may hold: issued for this market and user
\* with any payout and nonce, and issued for the same payout and nonce to
\* another user or on another market
IssuedProofs(user, payout, nonce) ==
    {Sign(MXE_PUBKEY, Tuple(THIS_MARKET, user, p, n)) : p \in Payouts, n \in Nonces}
    \cup {Sign(MXE_PUBKEY, Tuple(m, u, payout, nonce)) : m \in Markets, u \in Users}

\* the (signature argument, instruction 0) pairs of the transactions a caller
\* builds for the claim (user, payout, nonce); the runtime accepts each
Transactions(user, payout, nonce) ==
    LET valid == ValidProof(user, payout, nonce)
        own == SelfSigned(user, payout, nonce)
        junk == RandomBytes(user, payout, nonce)
    IN  \* a held proof, verified by the Ed25519 instruction
        {<<sig, Ed25519Instruction(sig)>> : sig \in IssuedProofs(user, payout, nonce)}
        \* the valid proof without its Ed25519 instruction, or with the
        \* instruction of another program, or beside a self-signed instruction
        \cup {<<valid, NoInstruction(valid)>>, <<valid, OtherInstruction(valid)>>,
              <<valid, Ed25519Instruction(own)>>}
        \* a self-signed claim, verified by the Ed25519 instruction
        \cup {<<own, Ed25519Instruction(own)>>}
        \* another signature argument beside the valid proof's instruction
        \cup {<<own, Ed25519Instruction(valid)>>, <<junk, Ed25519Instruction(valid)>>}
        \* random bytes and no Ed25519 instruction
        \cup {<<junk, NoInstruction(junk)>>, <<junk, OtherInstruction(junk)>>}

---------------------------------------------------------------------------
(* Actions *)

Init ==
    /\ market = NewMarket(MaxTime)
    /\ vault = 0
    /\ position = [u \in Users |-> NoPosition]
    /\ tokens = [u \in Users |-> MaxDeposit]
    /\ events = [u \in Users |-> <<>>]
    /\ now = 0
    /\ last = Idle
    /\ pending = {}
    /\ msg = NoMessage
    /\ wait = NotWaiting
    /\ flow = NoFlow
    /\ mock = NoMock

\* variant: bets are taken whatever the state of the market
place_bet_result_any_time(user, amount) ==
    IF amount = 0 THEN "InvalidAmount" ELSE "Ok"

\* variant: bets are taken after the expiry of an unresolved market
place_bet_result_no_expiry(user, amount) ==
    IF amount = 0 THEN "InvalidAmount"
    ELSE IF market.resolved THEN "MarketResolved"
    ELSE "Ok"

\* the result of place_bet(encrypted_payload, amount) in the current state
place_bet_result(user, amount) ==
    IF amount = 0 THEN "InvalidAmount"
    ELSE IF market.resolved THEN "MarketResolved"
    ELSE IF now >= market.expiry_timestamp THEN "MarketExpired"
    ELSE "Ok"

\* variant: the bet is not added to the position
position_after_bet_no_amount(pos, amount) ==
    [pos EXCEPT !.exists = TRUE]

\* the user's position after a bet: created on the first bet, the amount added
position_after_bet(pos, amount) ==
    [pos EXCEPT !.exists = TRUE, !.amount = @ + amount]

\* the place_bet instruction: the checks, the transfer, the pool, the position
place_bet(user, amount) ==
    /\ last.op = "none"
    /\ amount <= tokens[user]
    /\ LET r == place_bet_result(user, amount)
       IN  /\ last' = OtherReceipt("place_bet", user, amount, r)
           /\ IF r = "Ok"
              THEN /\ tokens' = [tokens EXCEPT ![user] = @ - amount]
                   /\ vault' = vault + amount
                   /\ market' = [market EXCEPT !.total_pool = @ + amount]
                   /\ position' = [position EXCEPT ![user] = position_after_bet(@, amount)]
              ELSE UNCHANGED <<tokens, vault, market, position>>
    /\ UNCHANGED <<events, now, pending, msg, wait, flow>>

PlaceBet(user, amount) == place_bet(user, amount) /\ UNCHANGED mock

\* variant: a resolved market can be resolved again
resolve_market_result_again(caller) ==
    IF caller # market.authority THEN "Unauthorized"
    ELSE IF now < market.expiry_timestamp THEN "MarketNotExpired"
    ELSE "Ok"

\* the result of resolve_market(result) sent by `caller`
resolve_market_result(caller) ==
    IF caller # market.authority THEN "Unauthorized"
    ELSE IF market.resolved THEN "AlreadyResolved"
    ELSE IF now < market.expiry_timestamp THEN "MarketNotExpired"
    ELSE "Ok"

\* the resolve_market instruction
resolve_market(caller, result) ==
    /\ last.op = "none"
    /\ LET r == resolve_market_result(caller)
       IN  /\ last' = OtherReceipt("resolve_market", caller, 0, r)
           /\ IF r = "Ok"
              THEN market' = [market EXCEPT !.resolved = TRUE, !.result = result]
              ELSE market' = market
    /\ UNCHANGED <<vault, position, tokens, events, now, pending, msg, wait, flow>>

ResolveMarket(caller, result) == resolve_market(caller, result) /\ UNCHANGED mock

\* claim_with_proof(payout, nonce, signature) in a transaction whose
\* instruction 0 is ix: the checks, then the transfer, the ledger update and
\* the event, all in the one transaction
ClaimWithProof(user, payout, nonce, signature, ix) ==
    /\ last.op = "none"
    /\ position[user].exists
    /\ RuntimeAccepts(ix)
    /\ LET r == claim_result(user, payout, nonce, signature, ix)
       IN  /\ last' = ClaimReceipt(user, payout, nonce, signature, ix, r)
           /\ IF r = "Ok"
              THEN /\ vault' = vault_after_claim(vault, payout)
                   /\ tokens' = [tokens EXCEPT ![user] = @ + payout]
                   /\ position' = [position EXCEPT ![user] = position_after_claim(@, nonce)]
                   /\ events' = [events EXCEPT ![user] = Append(@, ClaimEvent(user, payout, nonce))]
              ELSE UNCHANGED <<vault, tokens, position, events>>
    /\ UNCHANGED <<market, now, msg, wait, flow, mock>>

\* the clock advances
Tick ==
    /\ last.op = "none"
    /\ now < MaxTime
    /\ now' = now + 1
    /\ UNCHANGED <<market, vault, position, tokens, events, last, pending, msg, wait, flow, mock>>

\* the client reads the receipt of its transaction
Observe ==
    /\ last.op # "none"
    /\ last' = Idle
    /\ UNCHANGED <<market, vault, position, tokens, events, now, pending, msg, wait, flow, mock>>

\* some caller sends a claim transaction
SomeClaim ==
    /\ last.op = "none"
    /\ \E u \in Users, p \in Payouts, n \in Nonces :
         \E tx \in Transactions(u, p, n) : ClaimWithProof(u, p, n, tx[1], tx[2])
    /\ UNCHANGED <<pending, msg, wait, flow, mock>>

Next ==
    \/ \E u \in Users, a \in 0..MaxDeposit : PlaceBet(u, a)
    \/ \E c \in Callers, r \in MarketResults : ResolveMarket(c, r)
    \/ SomeClaim
    \/ Tick
    \/ Observe

Spec == Init /\ [][Next]_vars

---------------------------------------------------------------------------
(* The claim instruction on ledger entries written directly: a resolved and  *)
(* funded market whose UserPosition accounts hold any (claimed, nonce_used), *)
(* also pairs no instruction of the program leaves behind.                   *)

InitLedger ==
    /\ \E r \in MarketResults :
         market = [NewMarket(MaxTime) EXCEPT !.resolved = TRUE, !.result = r,
                                            !.total_pool = 2 * MaxDeposit]
    /\ vault = 2 * MaxDeposit
    /\ position \in [Users -> {[exists |-> TRUE, amount |-> MaxDeposit, claimed |-> c, nonce_used |-> n] :
                                  c \in BOOLEAN, n \in Nonces}]
    /\ tokens = [u \in Users |-> 0]
    /\ events = [u \in Users |-> <<>>]
    /\ now = MaxTime
    /\ last = Idle
    /\ pending = {}
    /\ msg = NoMessage
    /\ wait = NotWaiting
    /\ flow = NoFlow
    /\ mock = NoMock

NextLedger ==
    \/ SomeClaim
    \/ Observe

SpecLedger == InitLedger /\ [][NextLedger]_vars

---------------------------------------------------------------------------
(* Claims in flight together: clients send claim transactions for a resolved *)
(* and funded market before any of them is processed; the runtime then       *)
(* processes them one at a time, in any order, each as one transaction.      *)

\* the claim transactions that may be in flight together
MaxInFlight == 2
\* nonces of the proofs in flight: 0..MaxRaceNonce
MaxRaceNonce == 2
RaceNonces == 0..MaxRaceNonce

InitRace ==
    /\ \E r \in MarketResults :
         market = [NewMarket(MaxTime) EXCEPT !.resolved = TRUE, !.result = r,
                                            !.total_pool = 2 * MaxDeposit]
    /\ vault = 2 * MaxDeposit
    /\ position = [u \in Users |-> [NoPosition EXCEPT !.exists = TRUE, !.amount = MaxDeposit]]
    /\ tokens = [u \in Users |-> 0]
    /\ events = [u \in Users |-> <<>>]
    /\ now = MaxTime
    /\ last = Idle
    /\ pending = {}
    /\ msg = NoMessage
    /\ wait = NotWaiting
    /\ flow = NoFlow
    /\ mock = NoMock

\* a client sends claim_with_proof(payout, nonce, signature) with the proof
\* the MXE issued for it and the Ed25519 instruction at index 0
Submit(user, payout, nonce) ==
    /\ Cardinality(pending) < MaxInFlight
    /\ \A t \in pending : t.result = "pending"
    /\ pending' = pending \cup
         {[user |-> user, payout |-> payout, nonce |-> nonce, result |-> "pending"]}
    /\ pending' # pending
    /\ UNCHANGED <<market, vault, position, tokens, events, now, last, msg, wait, flow, mock>>

\* the runtime processes one of the transactions in flight
Execute(t) ==
    /\ t \in pending
    /\ t.result = "pending"
    /\ LET proof == ValidProof(t.user, t.payout, t.nonce)
       IN  ClaimWithProof(t.user, t.payout, t.nonce, proof, Ed25519Instruction(proof))
    /\ pending' = (pending \ {t}) \cup {[t EXCEPT !.result = last'.result]}

NextRace ==
    \/ \E u \in Users, p \in Payouts, n \in RaceNonces : Submit(u, p, n)
    \/ \E t \in pending : Execute(t)
    \/ Observe

SpecRace == InitRace /\ [][NextRace]_vars

---------------------------------------------------------------------------
(* Properties *)

RECURSIVE SumPayouts(_)
SumPayouts(evs) == IF evs = <<>> THEN 0 ELSE Head(evs).payout + SumPayouts(Tail(evs))

RECURSIVE SumOver(_, _)
SumOver(f, S) ==
    IF S = {} THEN 0
    ELSE LET x == CHOOSE y \in S : TRUE IN SumPayouts(f[x]) + SumOver(f, S \ {x})

\* the tokens the vault paid out, by the settlement events
TotalPaid == SumOver(events, Users)

\* the receipt is that of a claim_with_proof call
IsClaim == last.op = "claim_with_proof"

\* the claim presented signature sig, verified by the Ed25519 instruction at index 0
Presented(sig) == last.signature = sig /\ last.ix = Ed25519Instruction(sig)

\* the claim presented the proof the MXE issued for exactly its arguments
PresentedValidProof == Presented(ValidProof(last.user, last.payout, last.nonce))

\* the claim found a resolved market and an entry that passes the ledger checks
ReachedVerification ==
    /\ market.resolved
    /\ ~last.before.position.claimed
    /\ last.before.position.nonce_used = 0

\* the claim found its key settled by an earlier successful claim
SettledBefore ==
    /\ last.before.position.claimed
    /\ Len(events[last.user]) >= 1

\* the arguments of the earlier successful claim of the caller's key
Settled == events[last.user][1]

\* C1: for every (market, user) key at most one claim_with_proof call ever
\* succeeds, whatever proofs are presented and in whatever order, and the
\* vault is debited for the key at most once: every key has at most one
\* settlement, and the vault holds the pool less one payout per settled key.
C1_AtMostOneSettlement ==
    /\ \A u \in Users : Len(events[u]) <= 1
    /\ \A u \in Users : Len(events[u]) = 1 <=> position[u].claimed
    /\ vault = market.total_pool - TotalPaid

\* a settled key was claimed again with a fresh valid proof, and was refused
C1_Witness ==
    /\ IsClaim
    /\ SettledBefore
    /\ PresentedValidProof
    /\ last.nonce # Settled.nonce
    /\ last.result # "Ok"
    /\ Settled.payout > 0

\* C2: settlement is all or nothing: a successful claim_with_proof call moves
\* the payout from the vault to the user and commits the ledger entry
\* (claimed, nonce_used); a failed call leaves the vault, the user's tokens
\* and the ledger entry exactly as it found them.
C2_AllOrNothing ==
    IsClaim =>
        IF last.result = "Ok"
        THEN /\ vault = last.before.vault - last.payout
             /\ tokens[last.user] = last.before.tokens + last.payout
             /\ position[last.user].claimed
             /\ position[last.user].nonce_used = last.nonce
        ELSE /\ vault = last.before.vault
             /\ tokens[last.user] = last.before.tokens
             /\ position[last.user] = last.before.position

\* one key was settled with a payout, then a claim of another key failed the
\* solvency check and moved nothing
C2_Witness ==
    /\ IsClaim
    /\ last.result = "InsufficientVaultBalance"
    /\ \E u \in Users : Len(events[u]) = 1 /\ events[u][1].payout > 0

TamperedPayout ==
    \E P \in Payouts : P # last.payout /\ Presented(ValidProof(last.user, P, last.nonce))

ProofOf(mkt, usr) == Presented(Sign(MXE_PUBKEY, Tuple(mkt, usr, last.payout, last.nonce)))

CrossMarket == ProofOf(OTHER_MARKET, last.user)
CrossUser == \E usr \in Users : usr # last.user /\ ProofOf(THIS_MARKET, usr)

C6_SecondProofAlreadyClaimed ==
    (/\ IsClaim
     /\ SettledBefore
     /\ PresentedValidProof
     /\ last.nonce # Settled.nonce
     /\ last.payout # Settled.payout) => last.result = "AlreadyClaimed"

\* the second proof named a non-zero nonce and a payout the vault could pay
C6_Witness ==
    /\ IsClaim
    /\ SettledBefore
    /\ PresentedValidProof
    /\ last.nonce # Settled.nonce
    /\ last.nonce # 0
    /\ last.payout # Settled.payout
    /\ last.payout <= vault
    /\ last.result = "AlreadyClaimed"

\* C7: on a ledger entry with claimed = false and nonce_used = n, n # 0 (an
\* entry written directly, on a resolved market), a claim whose nonce is n
\* fails with NonceAlreadyUsed and transfers nothing.
C7_ConsumedNonceRejected ==
    (/\ IsClaim
     /\ market.resolved
     /\ ~last.before.position.claimed
     /\ last.before.position.nonce_used # 0
     /\ last.nonce = last.before.position.nonce_used) =>
        /\ last.result = "NonceAlreadyUsed"
        /\ vault = last.before.vault
        /\ position[last.user] = last.before.position

\* the consumed nonce came back with the valid proof for it
C7_Witness ==
    /\ IsClaim
    /\ ~last.before.position.claimed
    /\ last.before.position.nonce_used # 0
    /\ last.nonce = last.before.position.nonce_used
    /\ PresentedValidProof
    /\ last.payout <= vault
    /\ last.result = "NonceAlreadyUsed"

\* the claim repeats the earlier successful claim of its key: same payout,
\* same nonce, same signature
Replay ==
    /\ SettledBefore
    /\ last.payout = Settled.payout
    /\ last.nonce = Settled.nonce
    /\ PresentedValidProof

\* C8: after a claim with nonce n has succeeded, the replay of the same claim
\* (same payout, nonce and signature) is rejected with NonceAlreadyUsed.
C8_ReplayNonceAlreadyUsed ==
    (IsClaim /\ Replay /\ Settled.nonce # 0) => last.result = "NonceAlreadyUsed"

ReusedSignature(P, n) ==
    /\ last.payout # P
    /\ last.nonce # n
    /\ last.nonce # 0
    /\ Presented(ValidProof(last.user, P, n))

NothingMoved ==
    /\ vault = last.before.vault
    /\ tokens[last.user] = last.before.tokens
    /\ position[last.user] = last.before.position

\* C11: a valid proof that reaches the solvency check with a payout greater
\* than the vault balance fails with InsufficientVaultBalance and moves
\* nothing (no partial transfer, entry unchanged); with a payout up to and
\* equal to the balance it passes.
C11_SolvencyCheck ==
    (IsClaim /\ PresentedValidProof /\ ReachedVerification) =>
        IF last.payout > last.before.vault
        THEN last.result = "InsufficientVaultBalance" /\ NothingMoved
        ELSE last.result = "Ok"

\* a valid proof asked for more than a non-empty vault held
C11_Witness ==
    /\ IsClaim
    /\ PresentedValidProof
    /\ ReachedVerification
    /\ last.before.vault > 0
    /\ last.payout > last.before.vault
    /\ last.result = "InsufficientVaultBalance"

\* C12: a valid proof with payout = 0 succeeds, sets claimed = true and
\* records its nonce, moving no tokens; every later claim for the key, with
\* any proof, fails with AlreadyClaimed.
C12_ZeroPayoutIsTerminal ==
    /\ (IsClaim /\ PresentedValidProof /\ ReachedVerification /\ last.payout = 0) =>
          /\ last.result = "Ok"
          /\ position[last.user].claimed
          /\ position[last.user].nonce_used = last.nonce
          /\ vault = last.before.vault
    /\ (IsClaim /\ SettledBefore /\ Settled.payout = 0) =>
          last.result = "AlreadyClaimed"

\* a key settled with payout 0 presented a valid proof for a payout the vault
\* could pay
C12_Witness ==
    /\ IsClaim
    /\ SettledBefore
    /\ Settled.payout = 0
    /\ Settled.nonce # 0
    /\ PresentedValidProof
    /\ last.payout > 0
    /\ last.payout <= vault
    /\ last.result = "AlreadyClaimed"

\* C13: claim_with_proof on a market that is not resolved fails with
\* MarketNotResolved whatever signature and instruction 0 are presented, and
\* moves nothing.
C13_UnresolvedMarketRejected ==
    (IsClaim /\ ~market.resolved) =>
        last.result = "MarketNotResolved" /\ NothingMoved

\* a valid proof for a payout the vault could pay came before resolution
C13_Witness ==
    /\ IsClaim
    /\ ~market.resolved
    /\ PresentedValidProof
    /\ last.payout > 0
    /\ last.payout <= vault
    /\ last.result = "MarketNotResolved"

\* C14: a successful claim moves exactly its payout: the vault holds payout
\* less, the user payout more, no token appears or disappears, and the entry
\* is the one found with claimed = true and nonce_used = the nonce of the call.
C14_ExactPayout ==
    (IsClaim /\ last.result = "Ok") =>
        /\ last.before.vault - vault = last.payout
        /\ tokens[last.user] - last.before.tokens = last.payout
        /\ position[last.user] =
             [last.before.position EXCEPT !.claimed = TRUE, !.nonce_used = last.nonce]
        /\ events[last.user] = <<ClaimEvent(last.user, last.payout, last.nonce)>>

\* a claim with a non-zero nonce emptied the vault
C14_Witness ==
    /\ IsClaim
    /\ last.result = "Ok"
    /\ last.nonce # 0
    /\ last.payout > 0
    /\ last.payout = last.before.vault

\* the submissions of user u that were in flight together and committed
Committed(u) == {t \in pending : t.user = u /\ t.result = "Ok"}

\* C15: of the claim submissions in flight together for one (market, user)
\* key, under every order of processing at most one commits, every other one
\* processed finds the entry claimed, and the vault is debited for the key at
\* most once.
C15_RaceCommitsOnce ==
    /\ \A u \in Users :
         /\ Cardinality(Committed(u)) <= 1
         /\ Len(events[u]) = Cardinality(Committed(u))
         /\ \A t \in pending :
              (t.user = u /\ t.result \notin {"pending", "Ok", "InsufficientVaultBalance"})
                  => t.result = "AlreadyClaimed" /\ Committed(u) # {}
    /\ vault = market.total_pool - TotalPaid

\* two valid claims of one key with different non-zero nonces, each for a
\* payout the vault could pay twice over, were in flight together and both
\* were processed
C15_Witness ==
    \E t1, t2 \in pending :
        /\ t1.user = t2.user
        /\ t1.nonce # 0 /\ t2.nonce # 0 /\ t1.nonce # t2.nonce
        /\ t1.payout > 0 /\ t2.payout > 0
        /\ t1.payout + t2.payout <= market.total_pool
        /\ t1.result = "Ok"
        /\ t2.result = "AlreadyClaimed"

\* the signature the claim presents was not produced by the MXE key
NotByAuthority == last.signature.signer # MXE_PUBKEY

\* instruction 0 of the claim's transaction is an Ed25519 verification under
\* the MXE key
VerifiedUnderAuthority == last.ix.program = "ed25519" /\ last.ix.pubkey = MXE_PUBKEY

C17_ResolvesOnce ==
    [][/\ ~market.resolved => market.result = NoResult
       /\ market.resolved =>
            /\ market.result \in MarketResults
            /\ market'.resolved
            /\ market'.result = market.result
       /\ (~market.resolved /\ market'.resolved) =>
            /\ now >= market.expiry_timestamp
            /\ market'.result \in MarketResults
            /\ last'.op = "resolve_market"
            /\ last'.result = "Ok"
       /\ (/\ last.op = "none"
           /\ last'.op = "resolve_market"
           /\ (now < market.expiry_timestamp \/ market.resolved)) =>
            /\ last'.result # "Ok"
            /\ UNCHANGED <<market, vault, position, tokens, events>>]_vars

\* the authority tried to resolve a resolved market
C17_Witness ==
    /\ market.resolved
    /\ last.op = "resolve_market"
    /\ last.user = AUTHORITY
    /\ last.result = "AlreadyResolved"

\* the pair (claimed, nonce_used) of an entry
Ledger(pos) == <<pos.claimed, pos.nonce_used>>

\* C18: over any sequence of operations the pair (claimed, nonce_used) of an
\* entry changes at most once, from (false, 0), only as part of a successful
\* claim of its key, to (true, the nonce of the claim); a claimed entry stays
\* claimed and no entry is deleted.
C18_EntryCommitsOnce ==
    [][\A u \in Users :
         /\ position[u].exists => position'[u].exists
         /\ position[u].claimed => Ledger(position'[u]) = Ledger(position[u])
         /\ Ledger(position'[u]) # Ledger(position[u]) =>
              /\ Ledger(position[u]) = <<FALSE, 0>>
              /\ last'.op = "claim_with_proof"
              /\ last'.result = "Ok"
              /\ last'.user = u
              /\ Ledger(position'[u]) = <<TRUE, last'.nonce>>]_vars

\* a bet was tried on a key settled with a non-zero nonce
C18_Witness ==
    /\ last.op = "place_bet"
    /\ last.amount > 0
    /\ position[last.user].claimed
    /\ position[last.user].nonce_used # 0

NamedErrorKinds ==
    {"MarketNotResolved", "AlreadyClaimed", "NonceAlreadyUsed",
     "VerificationContextMissing", "VerificationContextMalformed",
     "SignatureMismatch", "MessageMismatch", "InsufficientVaultBalance"}

\* the error kinds of the program's ErrorCode that claim_with_proof returns
ClaimErrorKinds ==
    {"MarketNotResolved", "AlreadyClaimed", "NonceAlreadyUsed",
     "Ed25519InstructionMissing", "InvalidEd25519Program", "InvalidMXEPublicKey",
     "SignatureMismatch", "MessageMismatch", "InsufficientVaultBalance"}

Recomputed == construct_payout_message(THIS_MARKET, last.user, last.payout, last.nonce)

\* the five failure modes of verify_mxe_signature, in the claim's order
VerificationAbsent == last.ix.program = "none"
WrongPrimitive == last.ix.program \notin {"none", "ed25519"}
WrongKey == last.ix.program = "ed25519" /\ last.ix.pubkey # MXE_PUBKEY
WrongDigest ==
    /\ VerifiedUnderAuthority
    /\ last.ix.signature = last.signature
    /\ MessageOf(last.ix.message) # Recomputed
WrongSignature == VerifiedUnderAuthority /\ last.ix.signature # last.signature

\* the error kind of each failure mode
VerifierErrorKinds ==
    {"Ed25519InstructionMissing", "InvalidEd25519Program", "InvalidMXEPublicKey",
     "MessageMismatch", "SignatureMismatch"}

C22_ZeroNonceRejected ==
    (IsClaim /\ last.nonce = 0) => last.result # "Ok"

\* the call passes the signature verification
Verifies ==
    /\ VerifiedUnderAuthority
    /\ last.ix.signature = last.signature
    /\ MessageOf(last.ix.message) = Recomputed

\* C23: claim_with_proof evaluates its checks in the order market state,
\* ledger state, signature verification, solvency: the error returned is that
\* of the earliest check that fails, whatever later checks would fail too.
C23_EarliestFailingCheck ==
    IsClaim =>
        IF ~market.resolved THEN last.result = "MarketNotResolved"
        ELSE IF last.before.position.claimed THEN last.result = "AlreadyClaimed"
        ELSE IF last.before.position.nonce_used # 0 THEN last.result = "NonceAlreadyUsed"
        ELSE IF ~Verifies THEN last.result \in VerifierErrorKinds
        ELSE IF last.payout > last.before.vault THEN last.result = "InsufficientVaultBalance"
        ELSE last.result = "Ok"

\* a claim failed the ledger check, the verification and the solvency check
\* at once
C23_Witness ==
    /\ IsClaim
    /\ market.resolved
    /\ last.before.position.claimed
    /\ ~Verifies
    /\ last.payout > last.before.vault
    /\ last.result = "AlreadyClaimed"

\* C24: while the market is resolved and the entry of a key is unclaimed, a
\* proof validly signed for the key with a non-zero nonce other than
\* nonce_used and a payout of at most the vault balance is accepted; a failed
\* claim consumes no nonce (it leaves the entry as found, and an unclaimed
\* entry has nonce_used = 0), so the first valid claim wins.
C24_FreshProofAccepted ==
    /\ (/\ IsClaim
        /\ market.resolved
        /\ ~last.before.position.claimed
        /\ PresentedValidProof
        /\ last.nonce # 0
        /\ last.nonce # last.before.position.nonce_used
        /\ last.payout <= last.before.vault) => last.result = "Ok"
    /\ (IsClaim /\ last.result # "Ok") => position[last.user] = last.before.position
    /\ \A u \in Users : ~position[u].claimed => position[u].nonce_used = 0

\* a claim just failed on a key that is still open on a resolved and funded
\* market
C24_Witness ==
    /\ IsClaim
    /\ market.resolved
    /\ last.result \in VerifierErrorKinds \cup {"InsufficientVaultBalance"}
    /\ last.nonce # 0
    /\ ~position[last.user].claimed
    /\ position[last.user].nonce_used = 0
    /\ vault > 0

IsPlaceBet == last.op = "none" /\ last'.op = "place_bet"

C29_NoBetAfterExpiry ==
    [][(now >= market.expiry_timestamp \/ market.resolved) =>
          /\ market'.total_pool = market.total_pool
          /\ IsPlaceBet =>
                /\ last'.result \in {"InvalidAmount", "MarketResolved", "MarketExpired"}
                /\ position' = position
                /\ vault' = vault]_vars

\* a bet of a positive amount was refused on an expired, unresolved market
C29_Witness ==
    /\ last.op = "place_bet"
    /\ last.amount > 0
    /\ now >= market.expiry_timestamp
    /\ ~market.resolved
    /\ last.result = "MarketExpired"
    /\ market.total_pool > 0

---------------------------------------------------------------------------
(* The payout message at full width: program and client *)

\* a u64 as three limbs: lo + mid * 2^24 + hi * 2^48 (lo, mid < 2^24, hi < 2^16)
U64(lo, mid, hi) == [lo |-> lo, mid |-> mid, hi |-> hi]

\* const payout = 1000000; const validNonce = 12345;
TEST_PAYOUT == 1000000
TEST_NONCE == 12345

\* sample u64 values: 0, the test values, 2^24 + 1, 2^53 - 1, 2^53, 2^64 - 1
SampleU64 ==
    {U64(0, 0, 0), U64(TEST_NONCE, 0, 0), U64(TEST_PAYOUT, 0, 0), U64(1, 1, 0),
     U64(16777215, 16777215, 31), U64(0, 0, 32), U64(16777215, 16777215, 65535)}

\* variant: the eight bytes most significant first
u64_to_be_bytes(v) ==
    LET le == LeBytes(v.lo, 3) \o LeBytes(v.mid, 3) \o LeBytes(v.hi, 2)
    IN  [i \in 1..8 |-> le[9 - i]]

\* u64::to_le_bytes at full width: eight bytes, least significant first
u64_to_le_bytes(v) == LeBytes(v.lo, 3) \o LeBytes(v.mid, 3) \o LeBytes(v.hi, 2)

\* what a call gave: the buffer and its digest, or an exception
Returned(data) == [threw |-> FALSE, data |-> data, digest |-> keccak_hash(data)]
Threw == [threw |-> TRUE, data |-> <<>>, digest |-> keccak_hash(<<>>)]

\* fn construct_payout_message(market, user, payout: u64, nonce: u64) of the program
construct_payout_message_u64(mkt, user, payout, nonce) ==
    Returned(PubkeyBytes(mkt) \o PubkeyBytes(user)
             \o u64_to_le_bytes(payout) \o u64_to_le_bytes(nonce))

\* new BN(number): 26-bit words, least significant first; the constructor
\* asserts number < 0x20000000000000
BN(number) ==
    IF number.hi >= 32
    THEN [threw |-> TRUE, words |-> <<>>]
    ELSE [threw |-> FALSE,
          words |-> <<number.lo + (number.mid % 4) * 16777216,
                      (number.mid \div 4) + (number.hi % 16) * 4194304,
                      IF number.hi >= 16 THEN 1 ELSE 0>>]

\* q.iushrn(8) on the words of a BN
iushrn8(w) ==
    [i \in 1..Len(w) |->
        (w[i] \div 256) + (IF i < Len(w) THEN (w[i + 1] % 256) * 262144 ELSE 0)]

\* bn.toArray('le', length): q.andln(0xff), then q.iushrn(8), length times
RECURSIVE toArray(_, _)
toArray(w, length) ==
    IF length = 0 THEN <<>> ELSE <<w[1] % 256>> \o toArray(iushrn8(w), length - 1)

\* function constructPayoutMessage(market, user, payout: number, nonce: number)
constructPayoutMessage(mkt, user, payout, nonce) ==
    IF BN(payout).threw \/ BN(nonce).threw
    THEN Threw
    ELSE Returned(PubkeyBytes(mkt) \o PubkeyBytes(user)
                  \o toArray(BN(payout).words, 8) \o toArray(BN(nonce).words, 8))

\* the inputs are drawn; nothing is built yet
InitMessage ==
    /\ market = NewMarket(MaxTime)
    /\ vault = 0
    /\ position = [u \in Users |-> NoPosition]
    /\ tokens = [u \in Users |-> MaxDeposit]
    /\ events = [u \in Users |-> <<>>]
    /\ now = 0
    /\ last = Idle
    /\ pending = {}
    /\ wait = NotWaiting
    /\ flow = NoFlow
    /\ mock = NoMock
    /\ msg \in [pc : {"inputs"}, market : Markets, user : Users,
                payout : SampleU64, nonce : SampleU64,
                program : {<<>>}, client : {<<>>}]

\* the program builds the message of the inputs (a first or a second time)
ProgramBuilds ==
    /\ msg.pc = "inputs"
    /\ Len(msg.program) < 2
    /\ msg' = [msg EXCEPT !.program =
                 Append(@, construct_payout_message_u64(msg.market, msg.user,
                                                        msg.payout, msg.nonce))]
    /\ UNCHANGED <<market, vault, position, tokens, events, now, last, pending, wait, flow, mock>>

\* the client builds the message of the inputs (a first or a second time)
ClientBuilds ==
    /\ msg.pc = "inputs"
    /\ Len(msg.client) < 2
    /\ msg' = [msg EXCEPT !.client =
                 Append(@, constructPayoutMessage(msg.market, msg.user,
                                                  msg.payout, msg.nonce))]
    /\ UNCHANGED <<market, vault, position, tokens, events, now, last, pending, wait, flow, mock>>

NextMessage == ProgramBuilds \/ ClientBuilds

SpecMessage == InitMessage /\ [][NextMessage]_vars

\* the u64 whose little-endian bytes are b
FromLe(b) ==
    U64(b[1] + 256 * b[2] + 65536 * b[3], b[4] + 256 * b[5] + 65536 * b[6],
        b[7] + 256 * b[8])

\* the buffer is market (32) || user (32) || payout LE (8) || nonce LE (8)
CanonicalLayout(data) ==
    /\ Len(data) = 80
    /\ \A i \in 1..Len(data) : data[i] \in 0..255
    /\ SubSeq(data, 1, 32) = PubkeyBytes(msg.market)
    /\ SubSeq(data, 33, 64) = PubkeyBytes(msg.user)
    /\ FromLe(SubSeq(data, 65, 72)) = msg.payout
    /\ FromLe(SubSeq(data, 73, 80)) = msg.nonce

\* all the calls made so far that returned
Built == {msg.program[i] : i \in 1..Len(msg.program)}
           \cup {r \in {msg.client[i] : i \in 1..Len(msg.client)} : ~r.threw}

NarrowIsWide ==
    \A n \in Payouts \cup Nonces : to_le_bytes(n) = u64_to_le_bytes(U64(n, 0, 0))

C27_ClientDigestIsProgramDigest ==
    (msg.pc = "inputs" /\ Len(msg.program) > 0 /\ Len(msg.client) > 0) =>
        /\ ~msg.client[1].threw
        /\ msg.client[1].digest = msg.program[1].digest

\* below 2^53 the client's digest is the program's
AgreesBelowTwoPow53 ==
    (/\ msg.pc = "inputs" /\ Len(msg.program) > 0 /\ Len(msg.client) > 0
     /\ msg.payout.hi < 32 /\ msg.nonce.hi < 32) =>
        msg.client[1] = msg.program[1]

---------------------------------------------------------------------------
(* Waiting for a computation: the polling loops of the client *)

\* time is counted in ticks of 500 ms
\* the longest maxWaitMs a caller passes
MaxWait == 3
\* a status request, and the lateness of a timer, take 0..MaxLatency ticks
MaxLatency == 1

\* const pollIntervalMs = 500
POLL_INTERVAL == 1
\* options.pollIntervalMs || 1000
DEFAULT_POLL_INTERVAL == 2
\* the 30 seconds default of maxWaitMs, scaled to the longest wait of the model
DEFAULT_MAX_WAIT == MaxWait

\* an optional argument: omitted, or given with a value
Omitted == [given |-> FALSE, value |-> 0]
Given(v) == [given |-> TRUE, value |-> v]

\* options.x || d: the default replaces an omitted and a zero option
OrDefault(opt, d) == IF ~opt.given \/ opt.value = 0 THEN d ELSE opt.value
\* x: number = d: the default replaces an omitted argument only
DefaultParameter(opt, d) == IF ~opt.given THEN d ELSE opt.value

\* the statuses a status request reports
Statuses(fn) ==
    IF fn = "waitForCompletion"
    THEN {"pending", "queued", "running", "completed", "failed"}
    ELSE {"queued", "computing", "completed", "failed"}

\* the call is in its loop
Waiting(fn, maxWait, pollInterval) ==
    [pc |-> "head", fn |-> fn, maxWait |-> maxWait, pollInterval |-> pollInterval,
     elapsed |-> 0, seen |-> <<>>, outcome |-> "running"]

\* variant: a failed computation is polled again
after_status_failed_ignored(w, status) ==
    IF status = "completed" THEN [w EXCEPT !.pc = "done", !.outcome = "returned"]
    ELSE [w EXCEPT !.pc = "sleep"]

\* the body of the loop after a status arrived
after_status(w, status) ==
    IF status = "completed" THEN [w EXCEPT !.pc = "done", !.outcome = "returned"]
    ELSE IF status = "failed" THEN [w EXCEPT !.pc = "done", !.outcome = "Computation failed"]
    ELSE [w EXCEPT !.pc = "sleep"]

\* ArciumSDKClient.waitForCompletion(computationId, options), also reached
\* through ArciumService.waitForCompletion
waitForCompletion(maxWaitMs, pollIntervalMs) ==
    /\ wait.pc = "idle"
    /\ wait' = Waiting("waitForCompletion", OrDefault(maxWaitMs, DEFAULT_MAX_WAIT),
                       OrDefault(pollIntervalMs, DEFAULT_POLL_INTERVAL))
    /\ UNCHANGED <<market, vault, position, tokens, events, now, last, pending, msg, flow, mock>>

\* NexoraArciumClient.waitForComputationCompletion(computationId, maxWaitMs)
waitForComputationCompletion(maxWaitMs) ==
    /\ wait.pc = "idle"
    /\ wait' = Waiting("waitForComputationCompletion",
                       DefaultParameter(maxWaitMs, DEFAULT_MAX_WAIT), POLL_INTERVAL)
    /\ UNCHANGED <<market, vault, position, tokens, events, now, last, pending, msg, flow, mock>>

\* while (Date.now() - startTime < maxWait) ... throw new Error('Computation timeout')
LoopHead ==
    /\ wait.pc = "head"
    /\ wait' = IF wait.elapsed < wait.maxWait
               THEN [wait EXCEPT !.pc = "poll"]
               ELSE [wait EXCEPT !.pc = "done", !.outcome = "Computation timeout"]
    /\ UNCHANGED <<market, vault, position, tokens, events, now, last, pending, msg, flow, mock>>

\* the status request is answered with a status after d ticks
Poll(status, d) ==
    /\ wait.pc = "poll"
    /\ status \in Statuses(wait.fn)
    /\ wait' = after_status([wait EXCEPT !.elapsed = @ + d, !.seen = Append(@, status)],
                            status)
    /\ UNCHANGED <<market, vault, position, tokens, events, now, last, pending, msg, flow, mock>>

\* checkComputationStatus: the response is not ok, the request throws
PollFails(d) ==
    /\ wait.pc = "poll"
    /\ wait.fn = "waitForComputationCompletion"
    /\ wait' = [wait EXCEPT !.elapsed = @ + d, !.pc = "done",
                            !.outcome = "Failed to check computation status"]
    /\ UNCHANGED <<market, vault, position, tokens, events, now, last, pending, msg, flow, mock>>

\* await new Promise((resolve) => setTimeout(resolve, pollInterval))
Sleep(d) ==
    /\ wait.pc = "sleep"
    /\ wait' = [wait EXCEPT !.elapsed = @ + wait.pollInterval + d, !.pc = "head"]
    /\ UNCHANGED <<market, vault, position, tokens, events, now, last, pending, msg, flow, mock>>

InitWait ==
    /\ market = NewMarket(MaxTime)
    /\ vault = 0
    /\ position = [u \in Users |-> NoPosition]
    /\ tokens = [u \in Users |-> MaxDeposit]
    /\ events = [u \in Users |-> <<>>]
    /\ now = 0
    /\ last = Idle
    /\ pending = {}
    /\ msg = NoMessage
    /\ wait = NotWaiting
    /\ flow = NoFlow
    /\ mock = NoMock

WaitOptions == {Omitted} \cup {Given(v) : v \in 0..MaxWait}
PollOptions == {Omitted} \cup {Given(v) : v \in 0..DEFAULT_POLL_INTERVAL}
Latencies == 0..MaxLatency

AllStatuses == Statuses("waitForCompletion") \cup Statuses("waitForComputationCompletion")

Answer == \E d \in Latencies : (\E status \in AllStatuses : Poll(status, d)) \/ PollFails(d)
Wake == \E d \in Latencies : Sleep(d)

NextWait ==
    \/ \E m \in WaitOptions, p \in PollOptions : waitForCompletion(m, p)
    \/ \E m \in WaitOptions : waitForComputationCompletion(m)
    \/ LoopHead
    \/ Answer
    \/ Wake

\* every status request is answered, every timer fires, the loop runs on
SpecWait ==
    InitWait /\ [][NextWait]_vars
    /\ WF_vars(LoopHead) /\ WF_vars(Answer) /\ WF_vars(Wake)

Terminal(status) == status \in {"completed", "failed"}

\* no status before the last one seen is terminal
OnlyLastTerminal == \A i \in 1..(Len(wait.seen) - 1) : ~Terminal(wait.seen[i])

\* the call ended in one of the three ways, for the reason of that way
EndedProperly ==
    \/ /\ wait.outcome = "returned"
       /\ wait.seen # <<>>
       /\ wait.seen[Len(wait.seen)] = "completed"
       /\ OnlyLastTerminal
    \/ /\ wait.outcome = "Computation failed"
       /\ wait.seen # <<>>
       /\ wait.seen[Len(wait.seen)] = "failed"
       /\ OnlyLastTerminal
    \/ /\ wait.outcome = "Computation timeout"
       /\ wait.elapsed >= wait.maxWait
       /\ \A i \in 1..Len(wait.seen) : ~Terminal(wait.seen[i])

\* every status request of the call was answered with a status
StatusResponsesOnly ==
    wait.pc # "idle" /\ wait.outcome # "Failed to check computation status"

WaitSafety ==
    StatusResponsesOnly =>
        IF wait.pc = "done"
        THEN EndedProperly
        ELSE /\ wait.outcome = "running"
             /\ \A i \in 1..Len(wait.seen) : ~Terminal(wait.seen[i])

\* C30: for every sequence of status responses the wait ends, and in exactly
\* one of three ways: it returns at the first 'completed', throws
\* 'Computation failed' at the first 'failed', or throws 'Computation timeout'
\* once the elapsed time has reached maxWaitMs; it never returns without
\* having observed 'completed'.
C30_WaitEndsInOneOfThreeWays ==
    /\ []WaitSafety
    /\ (wait.pc # "idle") ~> (wait.pc = "done")

\* the wait timed out after several statuses, none of them terminal
C30_Witness ==
    /\ wait.pc = "done"
    /\ wait.outcome = "Computation timeout"
    /\ Len(wait.seen) >= 2
    /\ wait.elapsed >= wait.maxWait

---------------------------------------------------------------------------
(* Ledger and vault: the documented checks against the specified ones *)

\* what the ledger check of the program made of the claim
ReplayCheckOutcome ==
    IF last.result \in {"AlreadyClaimed", "NonceAlreadyUsed"} THEN last.result ELSE "Ok"

\* check_claimable as specified: fails if claimed, or if the proposed nonce
\* is 0, or if it equals the consumed nonce
SpecifiedCheckClaimable(entry, nonce) ==
    IF entry.claimed THEN "AlreadyClaimed"
    ELSE IF nonce = 0 \/ nonce = entry.nonce_used THEN "NonceAlreadyUsed"
    ELSE "Ok"

\* C33: the program's replay check (reject unless nonce_used = 0) and the
\* specified check_claimable (reject if claimed, or nonce = 0, or nonce =
\* consumed nonce) give the same outcome, success or the same error kind, for
\* every ledger state and every proposed nonce.
C33_ReplayCheckIsCheckClaimable ==
    (IsClaim /\ market.resolved) =>
        ReplayCheckOutcome = SpecifiedCheckClaimable(last.before.position, last.nonce)

\* C34: in every reachable state a ledger entry has claimed = true if and
\* only if its nonce_used is different from 0.
C34_ClaimedIffNonceConsumed ==
    \A u \in Users : position[u].claimed <=> position[u].nonce_used # 0

\* C35: in every reachable state the vault balance is non-negative and equals
\* its balance at resolution (the total pool, which no claim precedes and no
\* bet follows) minus the sum of the payouts of all successful claims.
C35_VaultIsPoolMinusPayouts ==
    /\ vault >= 0
    /\ vault = market.total_pool - TotalPaid
    /\ ~market.resolved => TotalPaid = 0
    /\ TotalPaid = SumOver([u \in Users |->
                              IF position[u].claimed THEN events[u] ELSE <<>>], Users)

\* both keys of the market were settled and the vault is empty
C35_Witness ==
    /\ market.resolved
    /\ \A u \in Users : position[u].claimed /\ Len(events[u]) = 1
    /\ TotalPaid = market.total_pool
    /\ TotalPaid > 0
    /\ vault = 0

---------------------------------------------------------------------------
(* The client's claim paths: claimPayoutWithProof under handleClaim, and the
   context's claimPayout *)

\* the instructions a client puts in a transaction
Ed25519Ix == [program |-> "ed25519", name |-> "verify"]
ClaimIx == [program |-> "nexora", name |-> "claim_with_proof"]

\* an error as thrown: the parts of its message
ErrorOf(text) == <<text>>
\* the error of a transaction the program rejected with an error kind
AnchorError(kind) == <<"AnchorError occurred. Error Code: ", kind>>
\* error.message?.includes(needle)
Includes(message, needle) == \E i \in 1..Len(message) : message[i] = needle

\* the proofs readPayoutResult may hand back
ProofSamples ==
    [payout : {U64(0, 0, 0), U64(TEST_PAYOUT, 0, 0)},
     nonce : {U64(TEST_NONCE, 0, 0), U64(0, 0, 32)}]

\* what the cluster may answer to a transaction: with an Ed25519 instruction
\* at index 0 anything; without one the signature verification cannot pass
SendOutcomes(tx) ==
    IF tx[1].program = "ed25519"
    THEN ClaimErrorKinds \cup {"Ok", "Ed25519 precompile failure"}
    ELSE {"MarketNotResolved", "AlreadyClaimed", "NonceAlreadyUsed",
          verify_mxe_signature(OtherInstruction(NoSignature), NoSignature, NoSignature)}

\* the client function is running
Running(path, pc) ==
    [pc |-> pc, path |-> path, log |-> <<>>, proof |-> CHOOSE q \in ProofSamples : TRUE,
     tx |-> <<>>, sent |-> FALSE, chain |-> "none", error |-> <<>>,
     reported |-> [success |-> FALSE, message |-> <<>>]]

\* the function throws
Throws(f, error) == [f EXCEPT !.pc = "threw", !.error = error]
\* the step is done, the next one is up
Done(f, step, pc) == [f EXCEPT !.pc = pc, !.log = Append(@, step)]

\* variant: the proof is read whatever the wait ended with
after_wait_unchecked(f, w) == Done(f, "waitForCompletion", "read")

\* await arciumService.waitForCompletion(...): goes on when it returned,
\* throws what it threw
after_wait(f, w) ==
    IF w.outcome = "returned" THEN Done(f, "waitForCompletion", "read")
    ELSE Throws(f, ErrorOf(w.outcome))

\* variant: an already claimed position is reported as a used proof
handleClaim_message_merged(error) ==
    IF Includes(error, "NonceAlreadyUsed") \/ Includes(error, "AlreadyClaimed")
    THEN ErrorOf("This payout proof has already been used (replay protection)")
    ELSE IF Includes(error, "SignatureMismatch")
    THEN ErrorOf("Invalid proof signature - payout verification failed")
    ELSE IF Includes(error, "MarketNotResolved")
    THEN ErrorOf("Market has not been resolved yet")
    ELSE IF Includes(error, "InsufficientVaultBalance")
    THEN ErrorOf("Vault has insufficient balance for this payout")
    ELSE error

\* the catch block of handleClaim: the error it throws for the error caught
handleClaim_message(error) ==
    IF Includes(error, "NonceAlreadyUsed")
    THEN ErrorOf("This payout proof has already been used (replay protection)")
    ELSE IF Includes(error, "AlreadyClaimed")
    THEN ErrorOf("You have already claimed your payout for this market")
    ELSE IF Includes(error, "SignatureMismatch")
    THEN ErrorOf("Invalid proof signature - payout verification failed")
    ELSE IF Includes(error, "MarketNotResolved")
    THEN ErrorOf("Market has not been resolved yet")
    ELSE IF Includes(error, "InsufficientVaultBalance")
    THEN ErrorOf("Vault has insufficient balance for this payout")
    ELSE error

ChainVars == <<market, vault, position, tokens, events, now, last, pending>>

\* handleClaim(program, provider, market, user) calls claimPayoutWithProof
handleClaim ==
    /\ flow.pc = "idle"
    /\ flow' = Running("claimPayoutWithProof", "create")
    /\ UNCHANGED <<ChainVars, msg, wait, mock>>

\* const arciumService = createArciumService()
createArciumService(configured) ==
    /\ flow.pc = "create"
    /\ flow' = IF configured THEN Done(flow, "createArciumService", "request")
               ELSE Throws(flow, ErrorOf("Arcium configuration missing"))
    /\ UNCHANGED <<ChainVars, msg, wait, mock>>

\* const { computationId } = await arciumService.requestPayout(...)
requestPayout(answered) ==
    /\ flow.pc = "request"
    /\ IF answered
       THEN /\ flow' = [flow EXCEPT !.pc = "wait", !.log = Append(@, "requestPayout")]
            /\ wait' = Waiting("waitForCompletion", OrDefault(Given(MaxWait), DEFAULT_MAX_WAIT),
                               OrDefault(Given(DEFAULT_POLL_INTERVAL), DEFAULT_POLL_INTERVAL))
       ELSE /\ flow' = Throws(flow, ErrorOf("Payout request failed"))
            /\ UNCHANGED wait
    /\ UNCHANGED <<ChainVars, msg, mock>>

\* the await of waitForCompletion settles
WaitSettles ==
    /\ flow.pc = "wait"
    /\ wait.pc = "done"
    /\ flow' = after_wait(flow, wait)
    /\ UNCHANGED <<ChainVars, msg, wait, mock>>

\* const result = await arciumService.readPayoutResult(computationId)
readPayoutResult(answered, proof) ==
    /\ flow.pc = "read"
    /\ flow' = IF answered
               THEN [Done(flow, "readPayoutResult", "build") EXCEPT !.proof = proof]
               ELSE Throws(flow, ErrorOf("Payout result unavailable"))
    /\ UNCHANGED <<ChainVars, msg, wait, mock>>

\* steps 4 to 8: the message, the Ed25519 instruction, the claim instruction,
\* the transaction
BuildTransaction ==
    /\ flow.pc = "build"
    /\ flow' = IF constructPayoutMessage(THIS_MARKET, "uX", flow.proof.payout,
                                         flow.proof.nonce).threw
               THEN Throws(flow, ErrorOf("Assertion failed"))
               ELSE [flow EXCEPT !.pc = "send", !.tx = <<Ed25519Ix, ClaimIx>>]
    /\ UNCHANGED <<ChainVars, msg, wait, mock>>

\* const signature = await provider.sendAndConfirm(tx)
SendAndConfirm(outcome) ==
    /\ flow.pc = "send"
    /\ outcome \in SendOutcomes(flow.tx)
    /\ flow' = LET f == [flow EXCEPT !.sent = TRUE, !.chain = outcome]
               IN  IF outcome = "Ok" THEN [f EXCEPT !.pc = "returned"]
                   ELSE IF outcome \in ClaimErrorKinds THEN Throws(f, AnchorError(outcome))
                   ELSE Throws(f, ErrorOf(outcome))
    /\ UNCHANGED <<ChainVars, msg, wait, mock>>

\* handleClaim returns { success: true, signature } or throws from its catch
Report ==
    /\ flow.pc \in {"returned", "threw"}
    /\ flow' = [flow EXCEPT !.pc = "done",
                  !.reported =
                     IF flow.pc = "returned"
                     THEN [success |-> TRUE, message |-> <<>>]
                     ELSE [success |-> FALSE,
                           message |-> IF flow.path = "claimPayoutWithProof"
                                       THEN handleClaim_message(flow.error)
                                       ELSE flow.error]]
    /\ UNCHANGED <<ChainVars, msg, wait, mock>>

\* the context's claimPayout(market): the guard, then getPayoutClaim
claimPayout(connected) ==
    /\ flow.pc = "idle"
    /\ flow' = IF connected THEN Running("claimPayout", "getPayoutClaim")
               ELSE Throws(Running("claimPayout", "guard"), ErrorOf("Wallet not connected"))
    /\ UNCHANGED <<ChainVars, msg, wait, mock>>

\* const { payout, nonce, signature } = await arciumClient.getPayoutClaim(...)
getPayoutClaim(answered, proof) ==
    /\ flow.pc = "getPayoutClaim"
    /\ flow' = IF answered
               THEN [Done(flow, "getPayoutClaim", "rpc") EXCEPT !.proof = proof]
               ELSE Throws(flow, ErrorOf("Failed to retrieve payout claim"))
    /\ UNCHANGED <<ChainVars, msg, wait, mock>>

\* program.methods.claimWithProof(new BN(payout), new BN(nonce), ...).rpc()
ClaimRpc ==
    /\ flow.pc = "rpc"
    /\ flow' = IF BN(flow.proof.payout).threw \/ BN(flow.proof.nonce).threw
               THEN Throws(flow, ErrorOf("Assertion failed"))
               ELSE [flow EXCEPT !.pc = "send", !.tx = <<ClaimIx>>]
    /\ UNCHANGED <<ChainVars, msg, wait, mock>>

InitClient ==
    /\ market = NewMarket(MaxTime)
    /\ vault = 0
    /\ position = [u \in Users |-> NoPosition]
    /\ tokens = [u \in Users |-> MaxDeposit]
    /\ events = [u \in Users |-> <<>>]
    /\ now = 0
    /\ last = Idle
    /\ pending = {}
    /\ msg = NoMessage
    /\ wait = NotWaiting
    /\ flow = NoFlow
    /\ mock = NoMock

\* a status request of the wait is answered
StatusArrives == \E d \in Latencies, status \in AllStatuses : Poll(status, d)

NextClient ==
    \/ handleClaim
    \/ \E c \in BOOLEAN : createArciumService(c)
    \/ \E a \in BOOLEAN : requestPayout(a)
    \/ (flow.pc = "wait" /\ (LoopHead \/ StatusArrives \/ Wake))
    \/ WaitSettles
    \/ \E a \in BOOLEAN, q \in ProofSamples : readPayoutResult(a, q)
    \/ BuildTransaction
    \/ \E o \in ClaimErrorKinds \cup {"Ok", "Ed25519 precompile failure"} : SendAndConfirm(o)
    \/ Report
    \/ \E c \in BOOLEAN : claimPayout(c)
    \/ \E a \in BOOLEAN, q \in ProofSamples : getPayoutClaim(a, q)
    \/ ClaimRpc

SpecClient == InitClient /\ [][NextClient]_vars

\* the steps claimPayoutWithProof completes before it sends
StepsBeforeSend ==
    <<"createArciumService", "requestPayout", "waitForCompletion", "readPayoutResult">>

\* C31: claimPayoutWithProof sends the claim transaction only after, in this
\* order, the payout request returned, waitForCompletion returned normally
\* and the payout result was read; if one of those steps throws (missing
\* configuration, failed computation, timeout), no transaction is sent.
C31_SendsOnlyAfterProof ==
    (flow.pc # "idle" /\ flow.path = "claimPayoutWithProof") =>
        /\ (flow.sent \/ flow.tx # <<>>) =>
              /\ flow.log = StepsBeforeSend
              /\ wait.pc = "done"
              /\ wait.outcome = "returned"
              /\ wait.seen[Len(wait.seen)] = "completed"
        /\ (flow.log # StepsBeforeSend /\ flow.pc \in {"threw", "done"}) =>
              ~flow.sent /\ flow.tx = <<>> /\ flow.chain = "none"

\* the transaction went out after a wait that polled more than once
C31_Witness ==
    /\ flow.pc # "idle"
    /\ flow.path = "claimPayoutWithProof"
    /\ flow.sent
    /\ flow.chain = "Ok"
    /\ Len(wait.seen) >= 2

\* C32: every client path that submits a claim_with_proof instruction puts an
\* Ed25519 verification instruction at index 0 of the same transaction,
\* before the claim instruction.
C32_Ed25519InstructionFirst ==
    (flow.pc # "idle" /\ ClaimIx \in {flow.tx[i] : i \in 1..Len(flow.tx)}) =>
        /\ flow.tx[1] = Ed25519Ix
        /\ \E i \in 2..Len(flow.tx) : flow.tx[i] = ClaimIx

---------------------------------------------------------------------------
(* ArciumMockClient: the confidential side of the devnet client *)

\* the largest amount of one recorded bet, and the largest total the mock holds
MaxBet == 2
MaxMockTotal == 4

Sides == {"yes", "no"}

\* payout: number | null
Null == [computed |-> FALSE, value |-> 0]
Number(n) == [computed |-> TRUE, value |-> n]

\* BetData, and the absence of an entry in the bets map
NoBet == [exists |-> FALSE, side |-> "yes", amount |-> 0, payout |-> Null]
BetData(side, amount) == [exists |-> TRUE, side |-> side, amount |-> amount, payout |-> Null]

\* MarketState, and the absence of an entry in the marketStates map
NoState == [exists |-> FALSE, totalYes |-> 0, totalNo |-> 0, resolved |-> FALSE]

\* what a method call of the mock did
NoCall ==
    [op |-> "none", user |-> "uX", side |-> "yes", amount |-> 0, threw |-> FALSE,
     error |-> "", value |-> 0, bets |-> [u \in Users |-> NoBet], state |-> NoState]
Call(op, user, side, amount, threw, error, value, m) ==
    [op |-> op, user |-> user, side |-> side, amount |-> amount, threw |-> threw,
     error |-> error, value |-> value, bets |-> m.bets, state |-> m.state]

\* new ArciumMockClient(): both maps empty
NewMock ==
    [pc |-> "ready", bets |-> [u \in Users |-> NoBet], state |-> NoState,
     completed |-> FALSE, call |-> NoCall]

\* the outcome of a method: it threw, or it returned leaving the maps as given
Raised(m, error) == [threw |-> TRUE, error |-> error, bets |-> m.bets, state |-> m.state]
Returns(bets, state) == [threw |-> FALSE, error |-> "", bets |-> bets, state |-> state]

\* variant: a bet on the same side replaces the recorded amount
recordBet_replace(m, user, side, amount) ==
    IF m.bets[user].exists /\ m.bets[user].side # side
    THEN Raised(m, "Cannot change bet side")
    ELSE Returns([m.bets EXCEPT ![user] = BetData(side, amount)],
                 [m.state EXCEPT !.exists = TRUE,
                                 !.totalYes = IF side = "yes" THEN @ + amount ELSE @,
                                 !.totalNo = IF side = "no" THEN @ + amount ELSE @])

\* recordBet(market, user, side, amount)
recordBet(m, user, side, amount) ==
    IF m.bets[user].exists /\ m.bets[user].side # side
    THEN Raised(m, "Cannot change bet side")
    ELSE Returns([m.bets EXCEPT ![user] =
                     IF @.exists THEN [@ EXCEPT !.amount = @ + amount]
                     ELSE BetData(side, amount)],
                 [m.state EXCEPT !.exists = TRUE,
                                 !.totalYes = IF side = "yes" THEN @ + amount ELSE @,
                                 !.totalNo = IF side = "no" THEN @ + amount ELSE @])

\* Math.floor((bet.amount / winningTotal) * totalPool); on the amounts of the
\* model (all below 22) the double arithmetic gives the exact quotient's floor
FloorShare(amount, winningTotal, totalPool) == (amount * totalPool) \div winningTotal

\* computePayouts(market, result, totalPool)
computePayouts(m, result, totalPool) ==
    IF ~m.state.exists THEN Raised(m, "Market not found")
    ELSE LET winningTotal == IF result = "yes" THEN m.state.totalYes ELSE m.state.totalNo
         IN  IF winningTotal = 0 THEN Returns(m.bets, m.state)
             ELSE Returns([u \in Users |->
                             IF ~m.bets[u].exists THEN m.bets[u]
                             ELSE IF m.bets[u].side = result
                             THEN [m.bets[u] EXCEPT !.payout =
                                     Number(FloorShare(m.bets[u].amount, winningTotal, totalPool))]
                             ELSE [m.bets[u] EXCEPT !.payout = Number(0)]],
                          [m.state EXCEPT !.resolved = TRUE])

\* getUserPayout(market, user): the number returned, or the exception
getUserPayout(m, user) ==
    IF ~m.bets[user].exists THEN [threw |-> FALSE, error |-> "", value |-> 0]
    ELSE IF ~m.bets[user].payout.computed
    THEN [threw |-> TRUE, error |-> "Payouts not yet computed", value |-> 0]
    ELSE [threw |-> FALSE, error |-> "", value |-> m.bets[user].payout.value]

\* the mock after a method that changes it
After(m, r, call) == [m EXCEPT !.bets = r.bets, !.state = r.state, !.call = call]

NotMock == <<market, vault, position, tokens, events, now, last, pending, msg, wait, flow>>

\* a caller records a bet
RecordBet(user, side, amount) ==
    /\ mock.pc = "ready"
    /\ mock.state.totalYes + mock.state.totalNo + amount <= MaxMockTotal
    /\ LET r == recordBet(mock, user, side, amount)
       IN  mock' = After(mock, r, Call("recordBet", user, side, amount, r.threw, r.error, 0, mock))
    /\ UNCHANGED NotMock

\* a caller has the payouts computed, with the pool the bets add up to
ComputePayouts(result) ==
    /\ mock.pc = "ready"
    /\ LET totalPool == mock.state.totalYes + mock.state.totalNo
           r == computePayouts(mock, result, totalPool)
       IN  mock' = After(mock, r, Call("computePayouts", "uX", result, totalPool,
                                       r.threw, r.error, 0, mock))
    /\ UNCHANGED NotMock

\* a caller asks for a user's payout
GetUserPayout(user) ==
    /\ mock.pc = "ready"
    /\ LET r == getUserPayout(mock, user)
       IN  mock' = [mock EXCEPT !.call = Call("getUserPayout", user, "yes", 0,
                                              r.threw, r.error, r.value, mock)]
    /\ UNCHANGED NotMock

InitMock ==
    /\ market = NewMarket(MaxTime)
    /\ vault = 0
    /\ position = [u \in Users |-> NoPosition]
    /\ tokens = [u \in Users |-> MaxDeposit]
    /\ events = [u \in Users |-> <<>>]
    /\ now = 0
    /\ last = Idle
    /\ pending = {}
    /\ msg = NoMessage
    /\ wait = NotWaiting
    /\ flow = NoFlow
    /\ mock = NewMock

NextMock ==
    \/ \E u \in Users, side \in Sides, a \in 0..MaxBet : RecordBet(u, side, a)
    \/ \E result \in Sides : ComputePayouts(result)
    \/ \E u \in Users : GetUserPayout(u)

SpecMock == InitMock /\ [][NextMock]_vars

\* the total recorded on a side of the market
SideTotal(state, side) == IF side = "yes" THEN state.totalYes ELSE state.totalNo
OtherSide(side) == IF side = "yes" THEN "no" ELSE "yes"

\* the last call was recordBet for a user who held a bet
RecordedAgain == mock.call.op = "recordBet" /\ mock.call.bets[mock.call.user].exists

\* C37: recordBet for a (market, user) that already holds a bet on the
\* opposite side throws 'Cannot change bet side' and leaves the stored bets
\* and the market's totalYes and totalNo unchanged; a bet on the same side
\* adds the amount to the existing bet.
C37_CannotChangeSide ==
    (mock.pc = "ready" /\ RecordedAgain) =>
        LET c == mock.call
            held == c.bets[c.user]
        IN  IF held.side # c.side
            THEN /\ c.threw
                 /\ c.error = "Cannot change bet side"
                 /\ mock.bets = c.bets
                 /\ mock.state = c.state
            ELSE /\ ~c.threw
                 /\ mock.bets = [c.bets EXCEPT ![c.user].amount = held.amount + c.amount]
                 /\ SideTotal(mock.state, c.side) = SideTotal(c.state, c.side) + c.amount
                 /\ SideTotal(mock.state, OtherSide(c.side)) = SideTotal(c.state, OtherSide(c.side))

\* a user added to the bet held, after a try at the other side was refused
C37_Witness ==
    /\ mock.pc = "ready"
    /\ RecordedAgain
    /\ ~mock.call.threw
    /\ mock.call.amount > 0
    /\ mock.bets[mock.call.user].amount > mock.call.amount
    /\ \E u \in Users : u # mock.call.user /\ mock.bets[u].exists

\* the sum of the computed payouts
RECURSIVE SumComputed(_, _)
SumComputed(bets, S) ==
    IF S = {} THEN 0
    ELSE LET u == CHOOSE x \in S : TRUE
         IN  bets[u].payout.value + SumComputed(bets, S \ {u})

\* C39: after computePayouts(market, result, totalPool) with totalPool =
\* totalYes + totalNo, every bet on the losing side has payout 0, every bet on
\* the winning side has payout floor(amount / winningTotal * totalPool), and
\* the payouts of the market add up to at most totalPool.
C39_PayoutsAfterCompute ==
    (mock.pc = "ready" /\ mock.call.op = "computePayouts" /\ ~mock.call.threw) =>
        LET result == mock.call.side
            totalPool == mock.call.amount
        IN  /\ \A u \in Users :
                  mock.bets[u].exists =>
                      /\ mock.bets[u].payout.computed
                      /\ mock.bets[u].side # result => mock.bets[u].payout.value = 0
                      /\ mock.bets[u].side = result =>
                            mock.bets[u].payout.value * SideTotal(mock.state, result)
                                <= mock.bets[u].amount * totalPool
                      /\ mock.bets[u].side = result =>
                            (mock.bets[u].payout.value + 1) * SideTotal(mock.state, result)
                                > mock.bets[u].amount * totalPool
            /\ SumComputed(mock.bets, Users) <= totalPool

\* when some bet won, the payouts are as C39 says
PayoutsWhenSomeoneWon ==
    (/\ mock.pc = "ready" /\ mock.call.op = "computePayouts" /\ ~mock.call.threw
     /\ SideTotal(mock.call.state, mock.call.side) > 0) =>
        /\ mock.state.resolved
        /\ \A u \in Users : mock.bets[u].exists => mock.bets[u].payout.computed
        /\ SumComputed(mock.bets, Users) <= mock.call.amount

---------------------------------------------------------------------------
(* NexoraContext: the on-chain transaction, then the mock *)

\* result === 'yes' ? { yes: {} } : { no: {} }
resultEnum(result) == IF result = "yes" THEN "Yes" ELSE "No"

\* the context's call that did not reach the mock
Refused(m, op, user, side, amount, error) ==
    [m EXCEPT !.call = Call(op, user, side, amount, TRUE, error, 0, m)]

\* placeBet(market, side, amount): the place_bet transaction, then recordBet
placeBet(connected, user, side, amount) ==
    /\ mock.pc = "ready"
    /\ IF ~connected
       THEN /\ mock' = Refused(mock, "placeBet", user, side, amount, "Wallet not connected")
            /\ UNCHANGED NotMock
       ELSE /\ place_bet(user, amount)
            /\ mock' = IF last'.result # "Ok"
                       THEN Refused(mock, "placeBet", user, side, amount, last'.result)
                       ELSE LET r == recordBet(mock, user, side, amount)
                            IN  After(mock, r, Call("placeBet", user, side, amount,
                                                    r.threw, r.error, 0, mock))

\* resolveMarket(market, result): the resolve_market transaction, the market
\* fetched, then computePayouts with its total pool
resolveMarket(connected, caller, result) ==
    /\ mock.pc = "ready"
    /\ IF ~connected
       THEN /\ mock' = Refused(mock, "resolveMarket", caller, result, 0, "Wallet not connected")
            /\ UNCHANGED NotMock
       ELSE /\ resolve_market(caller, resultEnum(result))
            /\ mock' = IF last'.result # "Ok"
                       THEN Refused(mock, "resolveMarket", caller, result, 0, last'.result)
                       ELSE LET r == computePayouts(mock, result, market'.total_pool)
                            IN  [After(mock, r, Call("resolveMarket", caller, result,
                                                     market'.total_pool, r.threw, r.error, 0, mock))
                                    EXCEPT !.completed = ~r.threw]

InitContext ==
    /\ market = NewMarket(MaxTime)
    /\ vault = 0
    /\ position = [u \in Users |-> NoPosition]
    /\ tokens = [u \in Users |-> MaxBet]
    /\ events = [u \in Users |-> <<>>]
    /\ now = 0
    /\ last = Idle
    /\ pending = {}
    /\ msg = NoMessage
    /\ wait = NotWaiting
    /\ flow = NoFlow
    /\ mock = NewMock

NextContext ==
    \/ \E connected \in BOOLEAN, u \in Users, side \in Sides, a \in 0..MaxBet :
          placeBet(connected, u, side, a)
    \/ \E connected \in BOOLEAN, c \in Callers, result \in Sides :
          resolveMarket(connected, c, result)
    \/ \E u \in Users : GetUserPayout(u)
    \/ Tick
    \/ Observe

SpecContext == InitContext /\ [][NextContext]_vars

\* the sum of the recorded bet amounts
RECURSIVE SumRecorded(_, _)
SumRecorded(bets, S) ==
    IF S = {} THEN 0
    ELSE LET u == CHOOSE x \in S : TRUE
         IN  bets[u].amount + SumRecorded(bets, S \ {u})

\* C38: after any sequence of placeBet calls through the context, calls in
\* which a step throws included, the totals of the confidential side
\* (totalYes + totalNo, the sum of the recorded bet amounts) equal the
\* amount the successful place_bet transactions recorded on-chain.
C38_MockTotalsMatchChain ==
    mock.pc = "ready" =>
        /\ mock.state.totalYes + mock.state.totalNo = SumRecorded(mock.bets, Users)
        /\ mock.state.totalYes + mock.state.totalNo = market.total_pool

\* the two sides of the mock's books agree with each other
MockTotalsAreRecordedBets ==
    mock.pc = "ready" =>
        mock.state.totalYes + mock.state.totalNo = SumRecorded(mock.bets, Users)

\* C40: once resolveMarket has completed (computePayouts returned normally)
\* the mock has the market resolved and getUserPayout returns a number for
\* every user who bet on it, never throwing 'Payouts not yet computed'.
C40_PayoutsReadyAfterResolve ==
    (mock.pc = "ready" /\ mock.completed) =>
        /\ mock.state.resolved
        /\ \A u \in Users : mock.bets[u].exists => ~getUserPayout(mock, u).threw
        /\ mock.call.op = "getUserPayout" => ~mock.call.threw

\* resolveMarket completed with a winner on the books: the payouts are there
ReadyWhenSomeoneWon ==
    (/\ mock.pc = "ready" /\ mock.completed
     /\ SideTotal(mock.state, IF market.result = "Yes" THEN "yes" ELSE "no") > 0) =>
        /\ mock.state.resolved
        /\ \A u \in Users : mock.bets[u].exists => ~getUserPayout(mock, u).threw

====
